---- MODULE Spec2Model ----
(***************************************************************************)
(* A model of auxlib.entity: typed, validating Field descriptors, the      *)
(* EntityType field registry and the Entity operations (keyword            *)
(* construction, load, create_from_objects, attribute assignment, dump,    *)
(* equality and hash).                                                     *)
(*                                                                         *)
(* Python values are records [t, n, s, els]: t is the name of the Python   *)
(* type, n the numeric payload (an int's value, a float's value in tenths, *)
(* an enum member's underlying value), s the text payload (a string's      *)
(* text, a datetime's ISO-8601 text) and els the elements of a list or     *)
(* tuple, or the single return value of a zero-argument callable.          *)
(***************************************************************************)
EXTENDS Integers, Sequences, FiniteSets, TLC

VARIABLES ent, other, last

vars == <<ent, other, last>>

(***************************************************************************)
(* Python values                                                           *)
(***************************************************************************)
Val(t, n, s, els) == [t |-> t, n |-> n, s |-> s, els |-> els]

None == Val("NoneType", 0, "", <<>>)

PyInt(i) == Val("int", i, "", <<>>)

PyFloat(tenths) == Val("float", tenths, "", <<>>)

PyStr(s) == Val("str", 0, s, <<>>)

PyDatetime(iso) == Val("datetime", 0, iso, <<>>)

PyList(els) == Val("list", 0, "", els)

PyTuple(els) == Val("tuple", 0, "", els)

\* a zero-argument callable that returns r
PyCallable(r) == Val("function", 0, "", <<r>>)

\* class Color(Enum): blue = 0, black = 1, red = 2
ColorValues == {0, 1, 2}

ColorMember(i) == Val("Color", i, "", <<>>)

callable(v) == v.t = "function"

Call(v) == v.els[1]

IsNumber(v) == v.t \in {"int", "float"}

\* a number's value in tenths
Tenths(v) == IF v.t = "int" THEN 10 * v.n ELSE v.n

\* Python's ==
PyEq(a, b) == IF IsNumber(a) /\ IsNumber(b) THEN Tenths(a) = Tenths(b) ELSE a = b

IsoText == "2015-01-02T00:00:00"

HumanText == "1/2/15"

\* dateutil.parser.parse: the texts it can read, and the datetime each denotes
Parseable == {IsoText, HumanText}

ParseDate(s) == PyDatetime(IsoText)

isoformat(d) == PyStr(d.s)

\* iterating a string yields its one-character strings
Chars(s) ==
  CASE s = "xx" -> <<"x", "x">>
    [] s = HumanText -> <<"1", "/", "2", "/", "1", "5">>
    [] s = IsoText -> <<"2", "0", "1", "5", "-", "0", "1", "-", "0", "2", "T",
                        "0", "0", ":", "0", "0", ":", "0", "0">>
    [] OTHER -> <<s>>

Iterable(v) == v.t \in {"list", "tuple", "str"}

Iterate(v) == IF v.t = "str" THEN [i \in 1..Len(Chars(v.s)) |-> PyStr(Chars(v.s)[i])]
              ELSE v.els

(***************************************************************************)
(* Results of operations that may raise: err is "none" or the exception    *)
(* class, val the value returned when nothing is raised.                   *)
(***************************************************************************)
Ok(v) == [err |-> "none", val |-> v]

Raised(e) == [err |-> e, val |-> None]

(***************************************************************************)
(* Field and its variants                                                  *)
(***************************************************************************)
\* A field object: kind is the Field subclass, elem the element type of a
\* ListField; validation is "none" or the name of a predicate.
NewField(kind, default, required, validation, in_dump, elem) ==
  [kind |-> kind, default |-> default, required |-> required,
   validation |-> validation, in_dump |-> in_dump, elem |-> elem]

\* isinstance(val, self._type)
IsInstance(fd, v) ==
  CASE fd.kind = "Int" -> v.t = "int"
    [] fd.kind = "String" -> v.t = "str"
    [] fd.kind = "Number" -> v.t \in {"int", "float"}
    [] fd.kind = "Date" -> v.t = "datetime"
    [] fd.kind = "Enum" -> v.t = "Color"
    [] fd.kind = "List" -> v.t = "tuple"

\* the custom validators used by the declared classes
Validation(name, v) ==
  CASE name = "positive" -> IsNumber(v) /\ Tenths(v) > 0
    [] OTHER -> TRUE

\* Field.validate without the test of is_required: None always means unset
FieldValidateIgnoringRequired(fd, v) ==
  LET val == IF callable(v) THEN Call(v) ELSE v IN
  IF ~IsInstance(fd, val)
  THEN IF val = None THEN "False" ELSE "ValidationError"
  ELSE IF fd.validation # "none" /\ ~Validation(fd.validation, val)
       THEN "ValidationError"
       ELSE "True"

\* Field.validate: "True", "False" (the value should be unset), or the
\* exception raised
FieldValidate(fd, v) ==
  LET val == IF callable(v) THEN Call(v) ELSE v IN
  IF ~IsInstance(fd, val)
  THEN IF val = None /\ ~fd.required THEN "False" ELSE "ValidationError"
  ELSE IF fd.validation # "none" /\ ~Validation(fd.validation, val)
       THEN "ValidationError"
       ELSE "True"

\* enum_class(val): lookup of a member by value
EnumCall(v) ==
  IF v.t = "Color" THEN Ok(v)
  ELSE IF IsNumber(v) /\ Tenths(v) % 10 = 0 /\ (Tenths(v) \div 10) \in ColorValues
       THEN Ok(ColorMember(Tenths(v) \div 10))
       ELSE Raised("ValueError")

\* isinstance(el, element_type) for the element types "int" and "str"
IsElement(et, el) == el.t = et

\* DateField._pre_convert, EnumField._pre_convert, ListField._pre_convert
PreConvert(fd, v) ==
  CASE fd.kind = "Date" ->
         IF v.t = "str"
         THEN IF v.s \in Parseable THEN Ok(ParseDate(v.s)) ELSE Raised("ValueError")
         ELSE Ok(v)
    [] fd.kind = "Enum" ->
         IF v # None /\ ~IsInstance(fd, v) THEN EnumCall(v) ELSE Ok(v)
    [] fd.kind = "List" ->
         IF v = None THEN Ok(None)
         ELSE IF ~Iterable(v) THEN Raised("TypeError")
         ELSE IF \E i \in 1..Len(Iterate(v)) : ~IsElement(fd.elem, Iterate(v)[i])
              THEN Raised("ValidationError")
              ELSE Ok(PyTuple(Iterate(v)))
    [] OTHER -> Ok(v)

\* Field.__init__ and the variants' __init__: the field object, or the
\* exception that aborts the class definition (a ListField has no name yet
\* when a default's element is rejected: reading self.name for the
\* ValidationError raises AttributeError)
FieldInit(kind, default, required, validation, in_dump, elem) ==
  LET raw == NewField(kind, default, required, validation, in_dump, elem)
      conv == PreConvert(raw, default)
      fd == NewField(kind, conv.val, required, validation, in_dump, elem)
  IN IF conv.err # "none"
     THEN Raised(IF kind = "List" /\ conv.err = "ValidationError" THEN "AttributeError"
                 ELSE conv.err)
     ELSE IF conv.val # None /\ FieldValidate(fd, conv.val) = "ValidationError"
          THEN Raised("ValidationError")
          ELSE Ok(fd)

(***************************************************************************)
(* Dicts (an instance's __dict__, keyword arguments, a dump, a lookup       *)
(* object's attributes) are functions whose domain is the set of keys.     *)
(***************************************************************************)
EmptyDict == <<>>

Put(d, k, v) == [x \in (DOMAIN d) \cup {k} |-> IF x = k THEN v ELSE d[x]]

Pop(d, k) == [x \in (DOMAIN d) \ {k} |-> d[x]]

\* Field.__set__ storing None where the entry should be removed
BaseSetStoringNone(fd, store, name, v) ==
  LET r == FieldValidate(fd, v) IN
  IF r = "ValidationError" THEN [err |-> r, store |-> store]
  ELSE IF r = "True" THEN [err |-> "none", store |-> Put(store, name, v)]
       ELSE [err |-> "none", store |-> Put(store, name, None)]

\* Field.__set__: the instance store after the assignment
BaseSet(fd, store, name, v) ==
  LET r == FieldValidate(fd, v) IN
  IF r = "ValidationError" THEN [err |-> r, store |-> store]
  ELSE IF r = "True" THEN [err |-> "none", store |-> Put(store, name, v)]
       ELSE [err |-> "none", store |-> Pop(store, name)]

\* __set__ without the except clauses: a ValueError of the conversion escapes
FieldSetNotCatching(fd, store, name, v) ==
  LET conv == PreConvert(fd, v) IN
  IF conv.err = "none" THEN BaseSet(fd, store, name, conv.val)
  ELSE [err |-> conv.err, store |-> store]

\* __set__ of the field's class: DateField, EnumField and ListField convert
\* first, and Date and Enum turn a ValueError into a ValidationError
FieldSet(fd, store, name, v) ==
  LET conv == PreConvert(fd, v) IN
  IF conv.err = "none" THEN BaseSet(fd, store, name, conv.val)
  ELSE IF conv.err = "ValueError" /\ fd.kind \in {"Date", "Enum"}
       THEN [err |-> "ValidationError", store |-> store]
       ELSE [err |-> conv.err, store |-> store]

\* Field.__get__
BaseGet(fd, store, name) ==
  IF name \in DOMAIN store
  THEN Ok(IF callable(store[name]) THEN Call(store[name]) ELSE store[name])
  ELSE IF fd.default # None
       THEN Ok(IF callable(fd.default) THEN Call(fd.default) ELSE fd.default)
       ELSE Raised("AttributeError")

\* __get__ of the field's class: DateField returns .isoformat(), EnumField
\* returns .value (None has neither: AttributeError)
FieldGet(fd, store, name) ==
  LET g == BaseGet(fd, store, name) IN
  IF g.err # "none" THEN g
  ELSE CASE fd.kind = "Date" ->
              IF g.val.t = "datetime" THEN Ok(isoformat(g.val)) ELSE Raised("AttributeError")
         [] fd.kind = "Enum" ->
              IF g.val.t = "Color" THEN Ok(PyInt(g.val.n)) ELSE Raised("AttributeError")
         [] OTHER -> g

(***************************************************************************)
(* The declared entity classes                                             *)
(***************************************************************************)
\* The field objects of the class bodies, as Field.__init__ leaves them (a
\* default is stored converted: EnumField(Color, default=1) holds Color.black)
IntField(default, required, in_dump) ==
  NewField("Int", default, required, "none", in_dump, "")

NumberField(default, required, in_dump) ==
  NewField("Number", default, required, "none", in_dump, "")

EnumField(default, required, in_dump) ==
  NewField("Enum", default, required, "none", in_dump, "")

\* The class bodies: base class and the Field attributes declared in the body.
\* Truck is the class of the module docstring; Part is a family of classes
\* over the required / in_dump / default flags of its wheels field.
PartNames ==
  {"PartRDF", "PartRD", "PartRF", "PartR", "PartDF", "PartD", "PartF", "Part"}

PartRequired(c) == c \in {"PartRDF", "PartRD", "PartRF", "PartR"}

PartInDump(c) == c \in {"PartRDF", "PartRD", "PartDF", "PartD"}

PartDefault(c) == IF c \in {"PartRDF", "PartRF", "PartDF", "PartF"} THEN PyInt(4) ELSE None

ClassNames ==
  {"Truck", "Pickup", "Empty", "Note", "Event", "Person", "Paint", "Words", "SubPart"}
  \cup PartNames

ClassBase(c) ==
  CASE c = "Pickup" -> "Truck"
    [] c = "SubPart" -> "Part"
    [] OTHER -> "Entity"

ClassBody(c) ==
  CASE c = "Truck" -> [color |-> EnumField(None, TRUE, TRUE),
                       weight |-> NumberField(None, TRUE, TRUE),
                       wheels |-> IntField(PyInt(4), TRUE, FALSE)]
    [] c = "SubPart" -> EmptyDict
    [] c = "Pickup" -> [wheels |-> IntField(None, FALSE, TRUE)]
    [] c = "Empty" -> EmptyDict
    [] c = "Note" -> [text |-> NewField("String", None, FALSE, "none", TRUE, "")]
    [] c = "Event" -> [when |-> NewField("Date", None, TRUE, "none", TRUE, ""),
                       tags |-> NewField("List", None, FALSE, "none", TRUE, "int")]
    [] c = "Person" -> [name |-> NewField("String", None, TRUE, "none", TRUE, ""),
                        age |-> NewField("Int", PyCallable(PyInt(1)), TRUE, "positive", TRUE, "")]
    [] c = "Paint" -> [color |-> EnumField(ColorMember(1), TRUE, TRUE),
                       shade |-> EnumField(None, FALSE, TRUE)]
    [] c = "Words" -> [words |-> NewField("List", None, TRUE, "none", TRUE, "str")]
    [] c \in PartNames -> [weight |-> NumberField(None, TRUE, TRUE),
                           wheels |-> IntField(PartDefault(c), PartRequired(c), PartInDump(c))]

\* EntityType.__init__: cls.__fields__ is the base class's registry updated
\* with the Field attributes of the class body
RECURSIVE Fields(_)
Fields(c) ==
  IF c = "Entity" THEN EmptyDict
  ELSE LET inherited == Fields(ClassBase(c))
           own == ClassBody(c)
       IN [k \in (DOMAIN inherited) \cup (DOMAIN own) |->
             IF k \in DOMAIN own THEN own[k] ELSE inherited[k]]

\* every field declaration of the classes passes Field.__init__
DeclarationsValid ==
  \A c \in ClassNames : \A k \in DOMAIN ClassBody(c) :
    LET fd == ClassBody(c)[k] IN
    FieldInit(fd.kind, fd.default, fd.required, fd.validation, fd.in_dump, fd.elem) = Ok(fd)

(***************************************************************************)
(* Entity                                                                  *)
(***************************************************************************)
RequiredNames(c) == {k \in DOMAIN Fields(c) : Fields(c)[k].required}

\* Entity.validate that never retrieves the required fields
EntityValidateNotRetrieving(c, store) ==
  IF RequiredNames(c) = {} THEN "TypeError" ELSE "none"

\* Entity.validate: reduce(lambda x, y: y, ...) over the retrieved values of
\* the required fields. An AttributeError of a retrieval becomes a
\* ValidationError; reduce() of an empty sequence raises TypeError.
EntityValidate(c, store) ==
  IF \E k \in RequiredNames(c) : FieldGet(Fields(c)[k], store, k).err # "none"
  THEN "ValidationError"
  ELSE IF RequiredNames(c) = {} THEN "TypeError" ELSE "none"

\* Entity.__init__: the outcomes [err, store] of cls(**kwargs). The registry
\* is iterated in dict order, so when several supplied values are rejected
\* the exception raised is that of any one of them.
EntityInit(c, kwargs) ==
  LET supplied == (DOMAIN Fields(c)) \cap (DOMAIN kwargs)
      set(k) == FieldSet(Fields(c)[k], EmptyDict, k, kwargs[k])
      failing == {k \in supplied : set(k).err # "none"}
      stored == {k \in supplied : k \in DOMAIN set(k).store}
      store == [k \in stored |-> set(k).store[k]]
  IN IF failing # {}
     THEN {[err |-> set(k).err, store |-> EmptyDict] : k \in failing}
     ELSE {[err |-> EntityValidate(c, store), store |-> store]}

\* find_or_none returning the attribute of the first map that has it, None
\* or not
RECURSIVE FindFirstPresent(_, _, _)
FindFirstPresent(key, search_maps, map_index) ==
  IF map_index >= Len(search_maps) THEN None
  ELSE LET m == search_maps[map_index + 1] IN
       IF key \notin DOMAIN m THEN FindFirstPresent(key, search_maps, map_index + 1)
       ELSE m[key]

\* find_or_none(key, search_maps, map_index): search_maps is a sequence of
\* lookup objects (dicts of their attributes); map_index counts from 0
RECURSIVE find_or_none(_, _, _)
find_or_none(key, search_maps, map_index) ==
  IF map_index >= Len(search_maps) THEN None
  ELSE LET m == search_maps[map_index + 1] IN
       IF key \notin DOMAIN m THEN find_or_none(key, search_maps, map_index + 1)
       ELSE IF m[key] # None THEN m[key]
            ELSE find_or_none(key, Tail(search_maps), 0)

\* the keyword arguments create_from_objects assembles: [err, val], val the
\* init_vars dict. An enum field's value goes through enum_class(value), whose
\* ValueError is not caught.
InitVars(c, search_maps) ==
  LET value(k) == find_or_none(k, search_maps, 0)
      taken == {k \in DOMAIN Fields(c) : value(k) # None \/ Fields(c)[k].required}
      conv(k) == IF Fields(c)[k].kind = "Enum" THEN EnumCall(value(k)) ELSE Ok(value(k))
  IN IF \E k \in taken : conv(k).err # "none"
     THEN [err |-> "ValueError", val |-> EmptyDict]
     ELSE [err |-> "none", val |-> [k \in taken |-> conv(k).val]]

\* Entity.create_from_objects: the outcomes [err, store]
CreateFromObjects(c, search_maps) ==
  LET iv == InitVars(c, search_maps) IN
  IF iv.err # "none" THEN {[err |-> iv.err, store |-> EmptyDict]}
  ELSE EntityInit(c, iv.val)

\* Entity.__dump_fields without the in_dump filter
DumpFieldsUnfiltered(c) == DOMAIN Fields(c)

\* Entity.__dump_fields: the cache test never finds the (mangled) attribute,
\* so the set is computed at every call
DumpFields(c) == {k \in DOMAIN Fields(c) : Fields(c)[k].in_dump}

\* Entity.dump: [err, val]
Dump(c, store) ==
  LET read == {k \in DumpFields(c) : Fields(c)[k].required}
      get(k) == FieldGet(Fields(c)[k], store, k)
  IN IF \E k \in read : get(k).err # "none"
     THEN [err |-> "AttributeError", val |-> EmptyDict]
     ELSE [err |-> "none", val |-> [k \in {x \in read : get(x).val # None} |-> get(k).val]]

\* Entity.__eq__ without the comparison of the classes
EntityEqAnyClass(a, b) ==
  LET ga(k) == FieldGet(Fields(a.cls)[k], a.store, k)
      gb(k) == FieldGet(Fields(a.cls)[k], b.store, k)
      raising == {k \in DOMAIN Fields(a.cls) : ga(k).err # "none" \/ gb(k).err # "none"}
      differing == {k \in (DOMAIN Fields(a.cls)) \ raising : ~PyEq(ga(k).val, gb(k).val)}
  IN (IF raising # {} THEN {"AttributeError"} ELSE {})
     \cup (IF differing # {} THEN {"False"} ELSE {})
     \cup (IF raising = {} /\ differing = {} THEN {"True"} ELSE {})

\* Entity.__eq__: the outcomes ("True", "False" or the exception). all()
\* stops at the first field, in dict order, whose values differ; getattr
\* raises AttributeError at the first field that cannot be retrieved.
EntityEq(a, b) ==
  IF a.cls # b.cls THEN {"False"}
  ELSE LET ga(k) == FieldGet(Fields(a.cls)[k], a.store, k)
           gb(k) == FieldGet(Fields(a.cls)[k], b.store, k)
           raising == {k \in DOMAIN Fields(a.cls) : ga(k).err # "none" \/ gb(k).err # "none"}
           differing == {k \in (DOMAIN Fields(a.cls)) \ raising : ~PyEq(ga(k).val, gb(k).val)}
       IN (IF raising # {} THEN {"AttributeError"} ELSE {})
          \cup (IF differing # {} THEN {"False"} ELSE {})
          \cup (IF raising = {} /\ differing = {} THEN {"True"} ELSE {})

\* hash() of a retrieved value: equal numbers hash alike, a tuple by its
\* elements
RECURSIVE SumHash(_)
PyHash(v) ==
  CASE v.t = "NoneType" -> 7
    [] IsNumber(v) -> IF Tenths(v) % 10 = 0 THEN Tenths(v) \div 10 ELSE 1000 + Tenths(v)
    [] v.t = "str" -> 100 + Len(Chars(v.s))
    [] v.t = "tuple" -> 200 + SumHash(v.els)
    [] OTHER -> 300 + v.n

SumHash(els) == IF els = <<>> THEN 0 ELSE PyHash(Head(els)) + SumHash(Tail(els))

RECURSIVE SumOver(_, _, _)
\* Entity.__hash__: sum(hash(getattr(self, field, None)) for field in fields)
SumOver(c, store, names) ==
  IF names = {} THEN 0
  ELSE LET k == CHOOSE x \in names : TRUE
           g == FieldGet(Fields(c)[k], store, k)
       IN PyHash(IF g.err = "none" THEN g.val ELSE None) + SumOver(c, store, names \ {k})

EntityHash(a) == SumOver(a.cls, a.store, DOMAIN Fields(a.cls))

(***************************************************************************)
(* The state: ent is the entity under observation and other a second       *)
(* entity (for comparisons); last records the last operation, its inputs,  *)
(* the exception it raised (err) and what it returned.                     *)
(***************************************************************************)
MaxSources == 2

Vals ==
  {None, PyInt(0), PyInt(1), PyInt(18), PyFloat(444),
   PyStr("xx"), PyStr(HumanText), PyDatetime(IsoText), ColorMember(0),
   PyList(<<PyInt(1)>>), PyList(<<PyStr("xx")>>), PyTuple(<<PyInt(1)>>),
   PyCallable(PyInt(1)), PyCallable(None)}

\* the dicts with keys among keys and values among vals
Dicts(keys, vals) == UNION {[S -> vals] : S \in SUBSET keys}

NoEntity == [live |-> FALSE, cls |-> "", store |-> EmptyDict]

Live(c, store) == [live |-> TRUE, cls |-> c, store |-> store]

NoOp ==
  [op |-> "none", cls |-> "", key |-> "", val |-> None, kwargs |-> EmptyDict,
   maps |-> <<>>, err |-> "none", before |-> EmptyDict, out |-> EmptyDict,
   res |-> "", hashes |-> <<0, 0>>]

Init ==
  /\ DeclarationsValid
  /\ ent = NoEntity
  /\ other = NoEntity
  /\ last = NoOp

\* No entity is under observation and no operation is on record: the point
\* at which the next entity is constructed.
Idle == ~ent.live /\ last.op \in {"none", "swap"}

\* the entity under observation is dropped (its last reference goes away)
Discard ==
  /\ ~Idle
  /\ ent' = NoEntity
  /\ last' = NoOp
  /\ UNCHANGED other

\* cls(**kwargs)
Construct(classes, vals) ==
  /\ Idle
  /\ \E c \in classes : \E kwargs \in Dicts(DOMAIN Fields(c), vals) :
    \E r \in EntityInit(c, kwargs) :
      /\ ent' = IF r.err = "none" THEN Live(c, r.store) ELSE NoEntity
      /\ last' = [NoOp EXCEPT !.op = "construct", !.cls = c, !.kwargs = kwargs,
                              !.err = r.err]
      /\ UNCHANGED other

\* load and create_from_objects are exercised on the classes of at most two
\* fields
SmallClasses == ClassNames \ {"Truck", "Pickup"}

\* Entity.load: cls.load(data_dict) is cls(**data_dict)
Load ==
  /\ Idle
  /\ \E c \in SmallClasses : \E data \in Dicts(DOMAIN Fields(c), Vals) :
    \E r \in EntityInit(c, data) :
      /\ ent' = IF r.err = "none" THEN Live(c, r.store) ELSE NoEntity
      /\ last' = [NoOp EXCEPT !.op = "load", !.cls = c, !.kwargs = data, !.err = r.err]
      /\ UNCHANGED other

\* setattr(ent, key, val) on a live entity
SetAttr(vals) ==
  /\ ent.live
  /\ \E key \in DOMAIN Fields(ent.cls) : \E val \in vals :
       LET r == FieldSet(Fields(ent.cls)[key], ent.store, key, val) IN
       /\ ent' = [ent EXCEPT !.store = r.store]
       /\ last' = [NoOp EXCEPT !.op = "set", !.cls = ent.cls, !.key = key, !.val = val,
                               !.err = r.err, !.before = ent.store]
  /\ UNCHANGED other

\* ent.dump()
DumpEntity ==
  /\ ent.live
  /\ LET d == Dump(ent.cls, ent.store) IN
     last' = [NoOp EXCEPT !.op = "dump", !.cls = ent.cls, !.err = d.err, !.out = d.val,
                          !.before = ent.store]
  /\ UNCHANGED <<ent, other>>

\* cls.load(ent.dump()): ent becomes the reloaded entity; when the load
\* raises, the instance dumped is still the one observed
Reload ==
  /\ ent.live
  /\ LET d == Dump(ent.cls, ent.store) IN
     /\ d.err = "none"
     /\ \E r \in EntityInit(ent.cls, d.val) :
          /\ ent' = IF r.err = "none" THEN Live(ent.cls, r.store) ELSE ent
          /\ last' = [NoOp EXCEPT !.op = "reload", !.cls = ent.cls, !.kwargs = d.val,
                                  !.err = r.err, !.before = ent.store]
  /\ UNCHANGED other


\* The search maps of a call with n - 1 sources: the override keywords, then
\* the sources. Whatever a map holds for a key is None or a value that tells
\* the map: the map at index i (from 0) holds the int i.
RECURSIVE SearchMaps(_, _)
SearchMaps(keys, n) ==
  IF n = 0 THEN {<<>>}
  ELSE {Append(maps, m) : maps \in SearchMaps(keys, n - 1),
                          m \in Dicts(keys, {None, PyInt(n - 1)})}

\* cls.create_from_objects(*objects, **override_fields)
Create ==
  /\ Idle
  /\ \E c \in SmallClasses : \E n \in 0..MaxSources :
    \E search_maps \in SearchMaps(DOMAIN Fields(c), n + 1) :
      \E r \in CreateFromObjects(c, search_maps) :
        /\ ent' = IF r.err = "none" THEN Live(c, r.store) ELSE NoEntity
        /\ last' = [NoOp EXCEPT !.op = "create", !.cls = c, !.maps = search_maps,
                                !.kwargs = InitVars(c, search_maps).val, !.err = r.err]
        /\ UNCHANGED other

Next ==
  \/ Construct(ClassNames, Vals)
  \/ Load
  \/ SetAttr(Vals)
  \/ DumpEntity
  \/ Reload
  \/ Create
  \/ Discard

Spec == Init /\ [][Next]_vars

(***************************************************************************)
(* Two entities: the comparison and the hash                               *)
(***************************************************************************)
EqClasses == {"Part", "SubPart", "PartRF"}

EqVals == {None, PyInt(1), PyInt(4), PyFloat(10), PyFloat(444), PyStr("xx")}

\* the two entities change places
Swap ==
  /\ ent' = other
  /\ other' = ent
  /\ last' = [NoOp EXCEPT !.op = "swap"]

\* ent == other, hash(ent), hash(other)
Compare ==
  /\ ent.live /\ other.live
  /\ \E r \in EntityEq(ent, other) :
       last' = [NoOp EXCEPT !.op = "eq", !.res = r,
                            !.hashes = <<EntityHash(ent), EntityHash(other)>>]
  /\ UNCHANGED <<ent, other>>

\* ent == ent
CompareSelf ==
  /\ ent.live
  /\ \E r \in EntityEq(ent, ent) :
       last' = [NoOp EXCEPT !.op = "eq_self", !.res = r,
                            !.hashes = <<EntityHash(ent), EntityHash(ent)>>]
  /\ UNCHANGED <<ent, other>>

NextEq ==
  \/ Construct(EqClasses, EqVals)
  \/ SetAttr(EqVals)
  \/ Swap
  \/ Compare
  \/ CompareSelf
  \/ Discard

SpecEq == Init /\ [][NextEq]_vars

(***************************************************************************)
(* Properties                                                              *)
(***************************************************************************)
\* the field object of the last operation's key
LastField == Fields(last.cls)[last.key]

\* the value a callable stands for
Resolve(v) == IF callable(v) THEN Call(v) ELSE v

\* v is accepted by the field and stored by an assignment
ValidFor(fd, k, v) ==
  LET r == FieldSet(fd, EmptyDict, k, v) IN r.err = "none" /\ k \in DOMAIN r.store

\* the required fields that have no default
RequiredNoDefault(c) == {k \in RequiredNames(c) : Fields(c)[k].default = None}

Constructing == last.op \in {"construct", "load"}

\* C1: constructing an entity (by keywords or by load) without a value for a
\* required field that has no default raises ValidationError and leaves no
\* live instance, whatever the class and the other supplied fields.
C1_MissingRequiredRaisesValidationError ==
  (Constructing /\ \E k \in RequiredNoDefault(last.cls) : k \notin DOMAIN last.kwargs)
    => (last.err = "ValidationError" /\ ~ent.live)

\* C2: for every class, constructing with a valid value for each required
\* field that has no default, and nothing else, succeeds with a live instance;
\* classes without any required field included.
C2_RequiredOnlyConstructionSucceeds ==
  (/\ last.op = "construct"
   /\ DOMAIN last.kwargs = RequiredNoDefault(last.cls)
   /\ \A k \in DOMAIN last.kwargs : ValidFor(Fields(last.cls)[k], k, last.kwargs[k]))
    => (last.err = "none" /\ ent.live)

\* an assignment leaves the entries of the other fields alone
OthersUntouched ==
  \A k \in ((DOMAIN last.before) \cup (DOMAIN ent.store)) \ {last.key} :
    /\ k \in DOMAIN last.before
    /\ k \in DOMAIN ent.store
    /\ ent.store[k] = last.before[k]

\* the three outcomes of assigning w, where stored is what case (3) stores
AssignmentOutcome(fd, w, stored) ==
  IF \/ (Resolve(w) # None /\ ~IsInstance(fd, Resolve(w)))
     \/ (Resolve(w) = None /\ fd.required)
     \/ (IsInstance(fd, Resolve(w)) /\ ~Validation(fd.validation, Resolve(w)))
  THEN last.err = "ValidationError" /\ ent.store = last.before
  ELSE IF Resolve(w) = None
       THEN last.err = "none" /\ ent.store = Pop(last.before, last.key)
       ELSE last.err = "none" /\ ent.store = Put(last.before, last.key, stored)

\* C3 as claimed: an assignment of v to a field of a live entity never touches
\* the other fields and (1) raises ValidationError, leaving the store as it
\* was, when v has the wrong declared type, or is None for a required field,
\* or is rejected by the validator; (2) removes the entry when v is None and
\* the field is not required; (3) otherwise stores v itself.
C3_AssignmentStoresValueItself ==
  last.op = "set" => (OthersUntouched /\ AssignmentOutcome(LastField, last.val, last.val))

\* C3 amended: the three cases are those of w, the value after the field's
\* conversion (EnumField: the member of a raw value; DateField: the datetime
\* parsed from a text; ListField: the tuple of the elements), and w is what
\* is stored. A failed conversion raises and leaves the store as it was:
\* ValidationError, but TypeError when a ListField is given a value that
\* cannot be iterated.
C3_AssignmentStoresConvertedValue ==
  last.op = "set" =>
    LET conv == PreConvert(LastField, last.val) IN
    /\ OthersUntouched
    /\ IF conv.err # "none"
       THEN /\ ent.store = last.before
            /\ last.err = IF LastField.kind = "List" /\ ~Iterable(last.val)
                          THEN "TypeError" ELSE "ValidationError"
       ELSE AssignmentOutcome(LastField, conv.val, conv.val)

\* C3 witness: an accepted assignment stored a converted value, not v
C3_Witness ==
  /\ last.op = "set"
  /\ last.err = "none"
  /\ last.key \in DOMAIN ent.store
  /\ ent.store[last.key] # last.val
  /\ last.key \in DOMAIN last.before

\* the retrieved value of a field of the entity (cls, store)
Retrieved(c, store, k) == FieldGet(Fields(c)[k], store, k)

TruckStore ==
  [color |-> ColorMember(0), weight |-> PyFloat(444), wheels |-> PyInt(18)]

\* C4: dump() is exactly the mapping name -> retrieved value over the fields
\* that are in_dump and required and whose retrieved value is not None; the
\* docstring's Truck(weight=44.4, color=Color.blue, wheels=18) dumps
\* {color: 0, weight: 44.4}.
C4_DumpIsRequiredInDumpFields ==
  last.op = "dump" =>
    /\ last.err = "none"
    /\ DOMAIN last.out =
         {k \in DOMAIN Fields(last.cls) :
            /\ Fields(last.cls)[k].in_dump
            /\ Fields(last.cls)[k].required
            /\ Retrieved(last.cls, ent.store, k).err = "none"
            /\ Retrieved(last.cls, ent.store, k).val # None}
    /\ \A k \in DOMAIN last.out : last.out[k] = Retrieved(last.cls, ent.store, k).val
    /\ (last.cls = "Truck" /\ ent.store = TruckStore)
         => last.out = [color |-> PyInt(0), weight |-> PyFloat(444)]

\* C4 witness: the docstring's truck, with wheels set explicitly, was dumped
C4_Witness == last.op = "dump" /\ last.cls = "Truck" /\ ent.store = TruckStore

\* C5 as claimed: load(instance.dump()) succeeds and retrieves, for every
\* required field, the value the instance retrieves, whatever the field's
\* in_dump flag and default.
C5_RoundTripAllRequiredFields ==
  last.op = "reload" =>
    /\ last.err = "none"
    /\ \A k \in RequiredNames(last.cls) :
         Retrieved(last.cls, ent.store, k) = Retrieved(last.cls, last.before, k)

\* C5 amended: load(instance.dump()) raises ValidationError when some
\* required field is excluded from the dump and has no default, and succeeds
\* otherwise; it then retrieves the instance's value for every required field
\* that is in_dump, and the default for every required field that is not.
C5_RoundTripInDumpFields ==
  last.op = "reload" =>
    IF \E k \in RequiredNoDefault(last.cls) : ~Fields(last.cls)[k].in_dump
    THEN last.err = "ValidationError" /\ ent.store = last.before
    ELSE /\ last.err = "none"
         /\ \A k \in RequiredNames(last.cls) :
              IF Fields(last.cls)[k].in_dump
              THEN Retrieved(last.cls, ent.store, k) = Retrieved(last.cls, last.before, k)
              ELSE Retrieved(last.cls, ent.store, k) = Retrieved(last.cls, EmptyDict, k)

\* C5 witness: a reload succeeded where a required field excluded from the
\* dump had been set to something else than its default
C5_Witness ==
  /\ last.op = "reload"
  /\ last.err = "none"
  /\ \E k \in RequiredNames(last.cls) :
       /\ ~Fields(last.cls)[k].in_dump
       /\ k \in DOMAIN last.before
       /\ Retrieved(last.cls, last.before, k) # Retrieved(last.cls, ent.store, k)

\* the value of key in the first map, in order, that has it and not as None
FirstNonNull(key, search_maps) ==
  LET having == {i \in 1..Len(search_maps) :
                   key \in DOMAIN search_maps[i] /\ search_maps[i][key] # None}
  IN IF having = {} THEN None
     ELSE search_maps[CHOOSE i \in having : \A j \in having : i <= j][key]

\* C6: create_from_objects gives each field the first value that is present
\* and not None, looking in the overrides and then in the sources in order;
\* find_or_none skips a map that lacks the name and a map that holds None for
\* it alike, and returns None only when all maps are exhausted.
C6_FirstPresentNonNullValueWins ==
  last.op = "create" =>
    \A k \in DOMAIN Fields(last.cls) :
      /\ find_or_none(k, last.maps, 0) = FirstNonNull(k, last.maps)
      /\ (last.err = "none" /\ FirstNonNull(k, last.maps) # None)
           => /\ k \in DOMAIN ent.store
              /\ Retrieved(last.cls, ent.store, k) = Ok(FirstNonNull(k, last.maps))

\* C6 witness: the overrides lack the name, the first source holds None for
\* it, and the entity got the second source's value
C6_Witness ==
  /\ last.op = "create"
  /\ last.err = "none"
  /\ Len(last.maps) = 3
  /\ \E k \in DOMAIN ent.store :
       /\ k \notin DOMAIN last.maps[1]
       /\ k \in DOMAIN last.maps[2] /\ last.maps[2][k] = None
       /\ k \in DOMAIN last.maps[3] /\ last.maps[3][k] = PyInt(2)
       /\ Retrieved(last.cls, ent.store, k) = Ok(PyInt(2))
  /\ \E k \in DOMAIN ent.store :
       /\ k \in DOMAIN last.maps[1] /\ last.maps[1][k] # None
       /\ k \in DOMAIN last.maps[2] /\ last.maps[2][k] # None

\* C7: in create_from_objects, when no map yields a value for a field that
\* has a default or is optional, construction still succeeds: the field falls
\* back to its default, or is left out when it is optional without one. Stated
\* for the classes that have a required field, with valid values for the
\* fields that are found.
C7_UnfoundFieldFallsBackToDefault ==
  (/\ last.op = "create"
   /\ RequiredNames(last.cls) # {}
   /\ \A k \in DOMAIN Fields(last.cls) :
        IF FirstNonNull(k, last.maps) = None
        THEN Fields(last.cls)[k].default # None \/ ~Fields(last.cls)[k].required
        ELSE ValidFor(Fields(last.cls)[k], k, FirstNonNull(k, last.maps)))
    => /\ last.err = "none"
       /\ ent.live
       /\ \A k \in DOMAIN Fields(last.cls) :
            FirstNonNull(k, last.maps) = None =>
              /\ k \notin DOMAIN ent.store
              /\ Retrieved(last.cls, ent.store, k) = Retrieved(last.cls, EmptyDict, k)

EnumKeys(c) == {k \in DOMAIN Fields(c) : Fields(c)[k].kind = "Enum"}

IsMember(v) == v.t = "Color"

\* the members of Color whose underlying value is v
MembersOf(v) == {ColorMember(i) : i \in {j \in ColorValues : PyEq(v, PyInt(j))}}

RawWithoutMember(v) == v # None /\ ~IsMember(v) /\ MembersOf(v) = {}

\* field k of the store holds the member that v is or denotes, and is
\* retrieved as that member's underlying value
HoldsMember(c, store, k, v) ==
  LET m == IF IsMember(v) THEN v ELSE CHOOSE x \in MembersOf(v) : TRUE IN
  /\ k \in DOMAIN store
  /\ store[k] = m
  /\ Retrieved(c, store, k) = Ok(PyInt(m.n))

C9_LiveEntityIsValid ==
  ent.live =>
    /\ DOMAIN ent.store \subseteq DOMAIN Fields(ent.cls)
    /\ \A k \in DOMAIN ent.store : ent.store[k] # None /\ Resolve(ent.store[k]) # None
    /\ \A k \in RequiredNames(ent.cls) :
         /\ k \in DOMAIN ent.store \/ Fields(ent.cls)[k].default # None
         /\ Retrieved(ent.cls, ent.store, k).err = "none"
         /\ Retrieved(ent.cls, ent.store, k).val # None

\* C9 witness: the assignment of None to a required field that has no default
\* was rejected, and the entity still holds the field's value
C9_Witness ==
  /\ ent.live
  /\ last.op = "set"
  /\ last.val \in {None, PyCallable(None)}
  /\ last.key \in RequiredNoDefault(last.cls)
  /\ last.err = "ValidationError"
  /\ last.key \in DOMAIN ent.store

AllRetrievable(e) ==
  \A k \in DOMAIN Fields(e.cls) : Retrieved(e.cls, e.store, k).err = "none"

\* the retrieved value, None standing for a field without value and default
RetrievedOrNone(e, k) ==
  IF Retrieved(e.cls, e.store, k).err = "none" THEN Retrieved(e.cls, e.store, k).val
  ELSE None

Bool(b) == IF b THEN "True" ELSE "False"

\* C10 as claimed: a == b holds iff a and b have the same class and every
\* field's retrieved value (a field without value and default counting as
\* unset on both sides) is equal; a == b implies hash(a) == hash(b); and
\* a == a for every live entity.
C10_EqualityIsTotal ==
  /\ last.op = "eq" =>
       /\ last.res = Bool(/\ ent.cls = other.cls
                          /\ \A k \in DOMAIN Fields(ent.cls) :
                               PyEq(RetrievedOrNone(ent, k), RetrievedOrNone(other, k)))
       /\ last.res = "True" => last.hashes[1] = last.hashes[2]
  /\ last.op = "eq_self" => last.res = "True"

\* C10 amended: entities of different classes are unequal. For two entities
\* of one class whose fields can all be retrieved, a == b holds iff every
\* field's retrieved value is equal. When a field of either has neither value
\* nor default, a == b does not hold: it raises AttributeError, or is False
\* if a field that differs is compared first. a == b implies
\* hash(a) == hash(b). a == a holds when every field of a can be retrieved
\* and raises AttributeError otherwise.
C10_EqualityOfRetrievableEntities ==
  /\ last.op = "eq" =>
       /\ IF ent.cls # other.cls THEN last.res = "False"
          ELSE IF AllRetrievable(ent) /\ AllRetrievable(other)
               THEN last.res = Bool(\A k \in DOMAIN Fields(ent.cls) :
                                      PyEq(RetrievedOrNone(ent, k), RetrievedOrNone(other, k)))
               ELSE /\ last.res \in {"AttributeError", "False"}
                    /\ last.res = "False" =>
                         \E k \in DOMAIN Fields(ent.cls) :
                           /\ Retrieved(ent.cls, ent.store, k).err = "none"
                           /\ Retrieved(ent.cls, other.store, k).err = "none"
                           /\ ~PyEq(RetrievedOrNone(ent, k), RetrievedOrNone(other, k))
       /\ last.res = "True" => last.hashes[1] = last.hashes[2]
  /\ last.op = "eq_self" =>
       last.res = IF AllRetrievable(ent) THEN "True" ELSE "AttributeError"

\* C10 witness: two entities that hold different stored values (1 and 1.0)
\* compared equal, with equal hashes
C10_Witness ==
  /\ last.op = "eq"
  /\ last.res = "True"
  /\ ent.store # other.store
  /\ last.hashes[1] = last.hashes[2]
====
